---- MODULE Spec2Model ----
(***************************************************************************)
(* Organiser / team administration views of pretalx                        *)
(* (src/pretalx/orga/views/organiser.py).                                  *)
(*                                                                         *)
(* The state is the persisted data the views act on (organisers, their     *)
(* settings, SSO clients, teams with their members, pending invites) and   *)
(* `last`, the observable record of the request handled last: the view,    *)
(* its URL kwargs, the permission object and the gate's verdict, the       *)
(* response, the flash messages, the mails sent and the order of the calls *)
(* made by the handler.  One action models one POST from dispatch to       *)
(* response.                                                               *)
(***************************************************************************)
EXTENDS Integers, Sequences, FiniteSets, TLC

VARIABLES orgs, settings, sso, teams, invites, nextTeam, nextInvite, last

dbvars == <<orgs, settings, sso, teams, invites, nextTeam, nextInvite>>
vars == <<orgs, settings, sso, teams, invites, nextTeam, nextInvite, last>>

\* ------------------------------------------------------------ bounds
\* Primary keys are never reused.  A run creates at most MaxCreated rows
\* (teams and invites together) on top of the rows that exist from the start.
MaxCreated == 2

\* The rows at the start: organiser o1 has team 1 with two members, organiser
\* o2 has team 2 with one member and one pending invite.
InitTeams ==
  (1 :> [org |-> "o1", flag |-> TRUE, members |-> {"u1", "u2"}]) @@
  (2 :> [org |-> "o2", flag |-> TRUE, members |-> {"u2"}])
InitInvites == (1 :> [team |-> 2])
FirstTeamId == Cardinality(DOMAIN InitTeams) + 1
FirstInviteId == Cardinality(DOMAIN InitInvites) + 1
MaxTeamId == FirstTeamId + MaxCreated - 1
MaxInviteId == FirstInviteId + MaxCreated - 1
Created == (nextTeam - FirstTeamId) + (nextInvite - FirstInviteId)

Organisers == {"o1", "o2"}
\* The views treat every organiser alike: the requests are handled for o1,
\* and o2 is the other tenant, whose team and invite exist from the start.
RequestOrganisers == {"o1"}
Users == {"u1", "u2"}
SettingValues == {"a", "b"}
InviteFields == {"email", "bulk_email"}
\* How many errors a field of an invalid form carries: none, one, several.
ErrorCounts == {0, 1, 2}

NoUser == "none"

\* ------------------------------------------------------------ objects
\* What a lookup or get_permission_object yields: an organiser, a team, an
\* invite, None, or the Http404 raised by get_object_or_404.
OrganiserObj(org) == [kind |-> "organiser", org |-> org, id |-> 0]
TeamObj(pk) == [kind |-> "team", org |-> teams[pk].org, id |-> pk]
InviteObj(pk) == [kind |-> "invite", org |-> teams[invites[pk].team].org, id |-> pk]
NoneObj == [kind |-> "None", org |-> "none", id |-> 0]
Http404 == [kind |-> "404", org |-> "none", id |-> 0]
\* The argument of a call that was not made.
NotCalled == [kind |-> "not called", org |-> "none", id |-> 0]

Msg(level, text) == [level |-> level, text |-> text]

\* The record of a request before anything has happened in it.
NoReq ==
  [view |-> "none", org |-> "none", pk |-> 0, user_pk |-> NoUser, form |-> "",
   allowed |-> FALSE, permObj |-> NoneObj, resp |-> "none", exc |-> "",
   msgs |-> <<>>, trace |-> <<>>, mailed |-> {}, reset |-> NoUser,
   errors |-> [f \in InviteFields |-> 0], saveTeam |-> NotCalled,
   data |-> FALSE, ssoValid |-> FALSE]

\* A request that passed the gate.
Req(view, org, pk, user_pk, form, permObj) ==
  [NoReq EXCEPT !.view = view, !.org = org, !.pk = pk, !.user_pk = user_pk,
                !.form = form, !.permObj = permObj, !.allowed = TRUE]

\* ------------------------------------------------------------ collaborators
\* check_access_permissions(organiser): the warnings about the organiser's
\* administrative coverage, computed on the teams as they are inside the
\* transaction.
check_access_permissions(org, tms) ==
  IF \E t \in DOMAIN tms : tms[t].org = org /\ tms[t].flag /\ tms[t].members # {}
  THEN <<>>
  ELSE <<"orphaned">>

WarningMsgs(warnings) == [i \in 1..Len(warnings) |-> Msg("warning", warnings[i])]

\* pretalx.common.views.is_form_bound(request, form_name)
is_form_bound(form, form_name) == form = form_name

Without(f, gone) == [x \in DOMAIN f \ gone |-> f[x]]

\* Deleting a team cascades to the invites that reference it.
WithoutTeams(inv, gone) ==
  [i \in {j \in DOMAIN inv : inv[j].team \notin gone} |-> inv[i]]

\* PermissionRequired.dispatch: the permission object is resolved first (a
\* failing lookup answers NotFound), then the permission is evaluated on it
\* (a failing check answers Forbidden); only then the handler runs.  A
\* rejected request leaves nothing but its view and its response.
Passes(permObj, allowed) == permObj.kind # "404" /\ allowed

Rejected(view, permObj) ==
  /\ last' = [NoReq EXCEPT !.view = view,
                           !.resp = IF permObj.kind = "404" THEN "NotFound"
                                    ELSE "Forbidden"]
  /\ UNCHANGED dbvars

\* Http404 raised by a lookup made inside the handler.
NotFound(view) ==
  /\ last' = [NoReq EXCEPT !.view = view, !.resp = "NotFound"]
  /\ UNCHANGED dbvars

\* An exception nothing in the view catches: it leaves the handler.
Propagates(req, text) == [req EXCEPT !.resp = "Exception", !.exc = text]

\* ------------------------------------------------------------ transaction.atomic
\* The running result of the statements inside `with transaction.atomic()`.
BlockStart ==
  [exc |-> "", teams |-> teams, invites |-> invites, warnings |-> <<>>,
   msgs |-> <<>>, trace |-> <<"atomic">>]

\* Leaving the block rolls everything back when an exception is in flight.
atomic_exit_noRollback(r) ==
  IF r.exc # ""
  THEN [r EXCEPT !.trace = Append(@, "rollback")]
  ELSE [r EXCEPT !.trace = Append(@, "commit")]

atomic_exit(r) ==
  IF r.exc # ""
  THEN [r EXCEPT !.teams = teams, !.invites = invites,
                 !.trace = Append(@, "rollback")]
  ELSE [r EXCEPT !.trace = Append(@, "commit")]

\* A statement of the block that writes: skipped once an exception is in
\* flight, raising or applying its write.
Call_mutate(r, raises, text, newTeams, newInvites) ==
  IF r.exc # "" THEN r
  ELSE IF raises THEN [r EXCEPT !.exc = text]
  ELSE [r EXCEPT !.teams = newTeams, !.invites = newInvites,
                 !.trace = Append(@, "mutate")]

\* warnings = check_access_permissions(self.request.organiser)
Call_check(r, org, raises) ==
  IF r.exc # "" THEN r
  ELSE IF raises THEN [r EXCEPT !.exc = "check failed", !.trace = Append(@, "check")]
  ELSE [r EXCEPT !.warnings = check_access_permissions(org, r.teams),
                 !.trace = Append(@, "check")]

\* messages.success(...) inside the block
Call_success(r, text) ==
  IF r.exc # "" THEN r ELSE [r EXCEPT !.msgs = Append(@, Msg("success", text))]

\* ------------------------------------------------------------ TeamMixin
\* TeamMixin._get_team: the team of the request's organiser with the URL pk,
\* Http404 when there is none, None when the URL carries no pk.
TeamMixin_get_team(org, pk) ==
  IF pk # 0
  THEN IF pk \in DOMAIN teams /\ teams[pk].org = org THEN TeamObj(pk) ELSE Http404
  ELSE NoneObj

\* ------------------------------------------------------------ TeamDetail
\* TeamDetail.get_object
TeamDetail_get_object(org, pk) ==
  IF pk = 0 THEN NoneObj ELSE TeamMixin_get_team(org, pk)

\* TeamDetail.get_permission_object
TeamDetail_get_permission_object(org, pk) ==
  IF pk = 0 THEN OrganiserObj(org) ELSE TeamDetail_get_object(org, pk)

\* TeamDetail.invite_form: bound iff the POST carries form=invite.
invite_form_is_bound(form) == form = "invite"

\* The errors of an invalid invite form: per field, how many errors it has;
\* at least one field has one.
InviteErrors ==
  {e \in [InviteFields -> ErrorCounts] : \E f \in InviteFields : e[f] > 0}

InviteFieldOrder == <<"email", "bulk_email">>

\* for error in self.invite_form.errors.values(): messages.error(...)
\* One message per entry of the error dict, the entry's errors joined.
InviteErrorMessages_perError(errors) ==
  LET one(f) == [i \in 1..errors[f] |-> Msg("error", f)]
  IN one(InviteFieldOrder[1]) \o one(InviteFieldOrder[2])

InviteErrorMessages(errors) ==
  LET bad == SelectSeq(InviteFieldOrder, LAMBDA f : errors[f] > 0)
  IN [i \in 1..Len(bad) |-> Msg("error", bad[i])]

\* messages.success after invite_form.save returned `n` invites.
InviteSuccessMessage(n) ==
  IF n = 1 THEN Msg("success", "The invitation has been sent.")
  ELSE Msg("success", "The invitations have been sent.")

\* TeamInviteForm.save(team=...): one TeamInvite per address, each mailed.
NewInvites(team, n) ==
  [i \in nextInvite..(nextInvite + n - 1) |-> [team |-> team]]

\* The invite branch of TeamDetail.post.
TeamDetail_post_invite(req, org, pk, valid) ==
  LET team == TeamMixin_get_team(org, pk)      \* self.team
      called == [req EXCEPT !.saveTeam = team, !.trace = <<"invite_form.save">>]
  IN IF ~valid
     THEN \E errors \in InviteErrors :
            /\ last' = [NoReq EXCEPT !.view = req.view, !.form = req.form,
                                     !.allowed = TRUE, !.errors = errors,
                                     !.resp = "RedirectPath",
                                     !.msgs = InviteErrorMessages(errors)]
            /\ UNCHANGED dbvars
     ELSE IF team.kind = "None"
     THEN \* save(team=None) cannot store an invite without a team; the
          \* exception leaves TeamDetail.post.
          /\ last' = Propagates(called, "invite save failed")
          /\ UNCHANGED dbvars
     ELSE \/ /\ last' = Propagates(called, "invite save failed")
             /\ UNCHANGED dbvars
          \/ \E n \in 1..2, sendRaises \in BOOLEAN :
               /\ Created + n <= MaxCreated
               /\ invites' = invites @@ NewInvites(team.id, n)
               /\ nextInvite' = nextInvite + n
               /\ UNCHANGED <<orgs, settings, sso, teams, nextTeam>>
               /\ last' =
                    IF sendRaises
                    THEN Propagates(called, "mail failed")
                    ELSE [called EXCEPT !.resp = "RedirectPath",
                                        !.mailed = DOMAIN NewInvites(team.id, n),
                                        !.msgs = <<InviteSuccessMessage(n)>>]

\* The statements inside the atomic block of TeamDetail.form_valid:
\* form.save(), then, for an edit, check_access_permissions.
TeamDetail_block_warningsRaise(org, pk, data, saveRaises, checkRaises) ==
  LET created == pk = 0
      saved == IF created
               THEN teams @@ (nextTeam :> [org |-> org, flag |-> data, members |-> {}])
               ELSE [teams EXCEPT ![pk].flag = data]
      r1 == Call_mutate(BlockStart, saveRaises, "save failed", saved, invites)
      r2 == IF created THEN r1 ELSE Call_check(r1, org, checkRaises)
  IN IF r2.warnings # <<>> THEN [r2 EXCEPT !.exc = r2.warnings[1]] ELSE r2

TeamDetail_block(org, pk, data, saveRaises, checkRaises) ==
  LET created == pk = 0                        \* not bool(form.instance.pk)
      saved == IF created
               THEN teams @@ (nextTeam :> [org |-> org, flag |-> data, members |-> {}])
               ELSE [teams EXCEPT ![pk].flag = data]
      r1 == Call_mutate(BlockStart, saveRaises, "save failed", saved, invites)
  IN IF created THEN r1 ELSE Call_check(r1, org, checkRaises)

\* The messages TeamDetail.form_valid reports after the block.
TeamDetail_messages(created, has_changed, r) ==
  IF r.exc # ""
  THEN <<Msg("error", r.exc)>>
  ELSE WarningMsgs(r.warnings) \o
       (IF created THEN <<Msg("success", "The team has been created.")>>
        ELSE IF has_changed THEN <<Msg("success", "The settings have been saved.")>>
        ELSE <<>>)

\* TeamDetail.get_success_url
TeamDetail_get_success_url(pk) == IF pk = 0 THEN "RedirectBase" ELSE "RedirectPath"

\* TeamDetail.form_valid
TeamDetail_form_valid(req, org, pk, data, saveRaises, checkRaises) ==
  LET created == pk = 0
      has_changed == IF created THEN TRUE ELSE teams[pk].flag # data
      r == atomic_exit(TeamDetail_block(org, pk, data, saveRaises, checkRaises))
  IN /\ created => Created + 1 <= MaxCreated
     /\ teams' = r.teams
     /\ nextTeam' = IF created /\ r.exc = "" THEN nextTeam + 1 ELSE nextTeam
     /\ UNCHANGED <<orgs, settings, sso, invites, nextInvite>>
     /\ last' = [req EXCEPT !.data = data,
                            !.exc = r.exc, !.trace = r.trace,
                            !.msgs = TeamDetail_messages(created, has_changed, r),
                            !.resp = IF r.exc # "" THEN "Render"
                                     ELSE TeamDetail_get_success_url(pk)]

\* TeamDetail.post: the invite sub-form when it is bound, else the team form
\* (CreateOrUpdateView.post: form_valid for a valid form, the re-rendered
\* page for an invalid one).
TeamDetail_post(req, org, pk, form, valid) ==
  IF invite_form_is_bound(form)
  THEN TeamDetail_post_invite(req, org, pk, valid)
  ELSE IF valid
  THEN \E data \in BOOLEAN, saveRaises \in BOOLEAN :
         \E checkRaises \in (IF pk = 0 \/ saveRaises THEN {FALSE} ELSE BOOLEAN) :
           TeamDetail_form_valid(req, org, pk, data, saveRaises, checkRaises)
  ELSE /\ last' = [req EXCEPT !.resp = "Render"]
       /\ UNCHANGED dbvars

TeamDetail(org, pk, form, allowed, valid) ==
  /\ org \in orgs
  /\ last = NoReq
  /\ LET permObj == TeamDetail_get_permission_object(org, pk)
     IN IF Passes(permObj, allowed)
        THEN TeamDetail_post(Req("TeamDetail", org, pk, NoUser, form, permObj),
                             org, pk, form, valid)
        ELSE Rejected("TeamDetail", permObj)

\* ------------------------------------------------------------ TeamDelete
\* TeamDelete.get_permission_object
TeamDelete_get_permission_object_organiser(org, pk) ==
  IF TeamMixin_get_team(org, pk).kind = "team" THEN OrganiserObj(org) ELSE Http404

TeamDelete_get_permission_object(org, pk) == TeamMixin_get_team(org, pk)

\* TeamDelete.get_object: with user_pk in the URL the member of the team with
\* that pk (.first(): none when the user is no member), else the team.
TeamDelete_get_object(pk, user_pk) ==
  IF user_pk # NoUser
  THEN [kind |-> "user", users |-> teams[pk].members \cap {user_pk}]
  ELSE [kind |-> "team", users |-> {}]

\* The write of TeamDelete.post: self.team.members.remove(self.get_object())
\* with user_pk in the URL, self.get_object().delete() without.
TeamDelete_mutation_dropsEmptyTeam(pk, user_pk) ==
  LET left == teams[pk].members \ TeamDelete_get_object(pk, user_pk).users
  IN IF user_pk # NoUser /\ left # {}
     THEN [teams |-> [teams EXCEPT ![pk].members = left], invites |-> invites]
     ELSE [teams |-> Without(teams, {pk}), invites |-> WithoutTeams(invites, {pk})]

TeamDelete_mutation(pk, user_pk) ==
  IF user_pk # NoUser
  THEN [teams |-> [teams EXCEPT ![pk].members =
                     @ \ TeamDelete_get_object(pk, user_pk).users],
        invites |-> invites]
  ELSE [teams |-> Without(teams, {pk}), invites |-> WithoutTeams(invites, {pk})]

\* The statements inside the atomic block of TeamDelete.post.
TeamDelete_block_checkFirst(org, pk, user_pk, mutRaises, checkRaises) ==
  LET m == TeamDelete_mutation(pk, user_pk)
      r1 == Call_check(BlockStart, org, checkRaises)
      r2 == Call_mutate(r1, mutRaises, "delete failed", m.teams, m.invites)
  IN Call_success(r2, IF user_pk # NoUser
                      THEN "The member was removed from the team."
                      ELSE "The team was removed.")

TeamDelete_block(org, pk, user_pk, mutRaises, checkRaises) ==
  LET m == TeamDelete_mutation(pk, user_pk)
      r1 == Call_mutate(BlockStart, mutRaises, "delete failed", m.teams, m.invites)
      r2 == Call_check(r1, org, checkRaises)
  IN Call_success(r2, IF user_pk # NoUser
                      THEN "The member was removed from the team."
                      ELSE "The team was removed.")

\* TeamDelete.post
TeamDelete_post(req, org, pk, user_pk, mutRaises, checkRaises) ==
  LET r == atomic_exit(TeamDelete_block(org, pk, user_pk, mutRaises, checkRaises))
  IN /\ teams' = r.teams
     /\ invites' = r.invites
     /\ UNCHANGED <<orgs, settings, sso, nextTeam, nextInvite>>
     /\ last' = IF r.exc # ""
                THEN [req EXCEPT !.exc = r.exc, !.trace = r.trace, !.resp = "Render",
                                 !.msgs = r.msgs \o <<Msg("error", r.exc)>>]
                ELSE [req EXCEPT !.trace = r.trace, !.resp = "RedirectBase",
                                 !.msgs = r.msgs \o WarningMsgs(r.warnings)]

TeamDelete(org, pk, user_pk, allowed) ==
  /\ org \in orgs
  /\ last = NoReq
  /\ pk # 0
  /\ LET permObj == TeamDelete_get_permission_object(org, pk)
     IN IF Passes(permObj, allowed)
        THEN \E mutRaises \in BOOLEAN :
               \E checkRaises \in (IF mutRaises THEN {FALSE} ELSE BOOLEAN) :
                 TeamDelete_post(Req("TeamDelete", org, pk, user_pk, "", permObj),
                                 org, pk, user_pk, mutRaises, checkRaises)
        ELSE Rejected("TeamDelete", permObj)

\* ------------------------------------------------------------ InviteMixin
\* InviteMixin.get_permission_object
InviteMixin_get_permission_object(org) == OrganiserObj(org)

\* self.get_object() of TeamUninvite and TeamResend.  Neither view nor
\* InviteMixin defines get_object, so this is DetailView's: the row of
\* `model = TeamInvite` with the URL pk.  (InviteMixin.team and
\* InviteMixin.object are cached properties that only refer to each other,
\* and no POST handler reads them.)
InviteView_get_object(pk) ==
  IF pk \in DOMAIN invites THEN InviteObj(pk) ELSE Http404

\* TeamUninvite.post
TeamUninvite_post(req, pk, raises) ==
  LET obj == InviteView_get_object(pk)
  IN IF obj.kind = "404" THEN NotFound(req.view)
     ELSE IF raises
     THEN last' = Propagates(req, "delete failed") /\ UNCHANGED dbvars
     ELSE /\ invites' = Without(invites, {obj.id})
          /\ UNCHANGED <<orgs, settings, sso, teams, nextTeam, nextInvite>>
          /\ last' = [req EXCEPT !.resp = "RedirectBase",
                        !.msgs = <<Msg("success", "The team invitation was retracted.")>>]

TeamUninvite(org, pk, allowed, raises) ==
  /\ org \in orgs
  /\ last = NoReq
  /\ LET permObj == InviteMixin_get_permission_object(org)
     IN IF Passes(permObj, allowed)
        THEN TeamUninvite_post(Req("TeamUninvite", org, pk, NoUser, "", permObj),
                               pk, raises)
        ELSE Rejected("TeamUninvite", permObj)

\* TeamResend.post: invite.send() mails the invitation; a failure of the
\* mail delivery raises.
TeamResend_post(req, pk, raises) ==
  LET obj == InviteView_get_object(pk)
  IN IF obj.kind = "404" THEN NotFound(req.view)
     ELSE /\ UNCHANGED dbvars
          /\ last' = IF raises
                     THEN Propagates(req, "mail failed")
                     ELSE [req EXCEPT !.resp = "RedirectBase", !.mailed = {obj.id},
                             !.msgs = <<Msg("success", "The team invitation was sent again.")>>]

TeamResend(org, pk, allowed, raises) ==
  /\ org \in orgs
  /\ last = NoReq
  /\ LET permObj == InviteMixin_get_permission_object(org)
     IN IF Passes(permObj, allowed)
        THEN TeamResend_post(Req("TeamResend", org, pk, NoUser, "", permObj),
                             pk, raises)
        ELSE Rejected("TeamResend", permObj)

\* ------------------------------------------------------------ TeamResetPassword
\* TeamResetPassword.get_permission_object
TeamResetPassword_get_permission_object(org) == OrganiserObj(org)

\* TeamResetPassword.team
TeamResetPassword_team(org, pk) ==
  IF pk \in DOMAIN teams /\ teams[pk].org = org THEN TeamObj(pk) ELSE Http404

\* TeamResetPassword.user: a member of self.team, or Http404.
TeamResetPassword_user(org, pk, user_pk) ==
  LET team == TeamResetPassword_team(org, pk)
  IN IF team.kind = "404" THEN NoUser
     ELSE IF user_pk \in teams[pk].members THEN user_pk ELSE NoUser

\* TeamResetPassword.post
TeamResetPassword_post(req, org, pk, user_pk, outcome) ==
  LET user == TeamResetPassword_user(org, pk, user_pk)
  IN IF user = NoUser THEN NotFound(req.view)
     ELSE /\ UNCHANGED dbvars
          /\ last' =
               CASE outcome = "ok" ->
                      [req EXCEPT !.resp = "RedirectBase", !.reset = user,
                                  !.msgs = <<Msg("success", "password_reset_success")>>]
                 [] outcome = "SendMailException" ->
                      [req EXCEPT !.resp = "RedirectBase", !.exc = "mail failed",
                                  !.msgs = <<Msg("error", "password_reset_fail")>>]
                 [] OTHER -> Propagates(req, "reset failed")

TeamResetPassword(org, pk, user_pk, allowed, outcome) ==
  /\ org \in orgs
  /\ last = NoReq
  /\ pk # 0
  /\ LET permObj == TeamResetPassword_get_permission_object(org)
     IN IF Passes(permObj, allowed)
        THEN TeamResetPassword_post(
               Req("TeamResetPassword", org, pk, user_pk, "", permObj),
               org, pk, user_pk, outcome)
        ELSE Rejected("TeamResetPassword", permObj)

\* ------------------------------------------------------------ OrganiserDetail
\* OrganiserDetail.get_object, the permission object of the view.
OrganiserDetail_get_object(org) == OrganiserObj(org)

\* OrganiserDetail.is_remove_sso_client_request
is_remove_sso_client_request(form) ==
  is_form_bound(form, "remove_sso_client") /\ form = "remove_sso_client"

\* OrganiserDetail.is_sso_client_request
is_sso_client_request(form, ssoValid) ==
  is_form_bound(form, "sso_client") /\ form = "sso_client" /\ ssoValid

\* OrganiserDetail.get_success_url reports "Saved!" and answers the path.
Saved(req) ==
  [req EXCEPT !.resp = "RedirectPath", !.msgs = Append(@, Msg("success", "Saved!"))]

\* The `except Exception` clauses of OrganiserDetail.post and save_sso_client.
ErrorRedirect(req, text) ==
  [req EXCEPT !.resp = "RedirectPath", !.exc = text,
              !.msgs = Append(@, Msg("error", "An error occurred: "))]

\* OrganiserDetail.handle_remove_sso_client
handle_remove_sso_client(req, org, raises) ==
  LET r == [req EXCEPT !.trace = <<"handle_remove_sso_client">>]
  IN IF org \notin sso
     THEN /\ last' = [r EXCEPT !.resp = "RedirectPath",
                               !.msgs = <<Msg("error", "The key does not exist.")>>]
          /\ UNCHANGED dbvars
     ELSE IF raises
     THEN last' = ErrorRedirect(r, "delete failed") /\ UNCHANGED dbvars
     ELSE /\ sso' = sso \ {org}
          /\ UNCHANGED <<orgs, settings, teams, invites, nextTeam, nextInvite>>
          /\ last' = [r EXCEPT !.resp = "RedirectPath",
                               !.trace = Append(@, "sso_delete")]

\* OrganiserDetail.handle_sso_client / save_sso_client
save_sso_client(req, org, raises) ==
  LET r == [req EXCEPT !.trace = <<"handle_sso_client">>]
  IN IF raises
     THEN last' = ErrorRedirect(r, "sso save failed") /\ UNCHANGED dbvars
     ELSE /\ sso' = sso \cup {org}
          /\ UNCHANGED <<orgs, settings, teams, invites, nextTeam, nextInvite>>
          /\ last' = Saved([r EXCEPT !.trace = Append(@, "sso_save")])

\* The else branch of OrganiserDetail.post: CreateOrUpdateView.post with the
\* organiser form.
OrganiserDetail_super_post(req, org, orgValid, value, raises) ==
  LET r == [req EXCEPT !.trace = <<"super_post">>]
  IN IF ~orgValid
     THEN last' = [r EXCEPT !.resp = "Render"] /\ UNCHANGED dbvars
     ELSE IF raises
     THEN last' = ErrorRedirect(r, "save failed") /\ UNCHANGED dbvars
     ELSE /\ settings' = [settings EXCEPT ![org] = value]
          /\ UNCHANGED <<orgs, sso, teams, invites, nextTeam, nextInvite>>
          /\ last' = Saved([r EXCEPT !.trace = Append(@, "settings_save")])

\* OrganiserDetail.post
OrganiserDetail_post(req, org, form, ssoValid) ==
  IF is_remove_sso_client_request(form)
  THEN \E raises \in BOOLEAN : handle_remove_sso_client(req, org, raises)
  ELSE IF is_sso_client_request(form, ssoValid)
  THEN \E raises \in BOOLEAN : save_sso_client(req, org, raises)
  ELSE \/ \E value \in SettingValues, raises \in BOOLEAN :
            OrganiserDetail_super_post(req, org, TRUE, value, raises)
       \/ OrganiserDetail_super_post(req, org, FALSE, settings[org], FALSE)

OrganiserDetail(org, form, allowed, ssoValid) ==
  /\ org \in orgs
  /\ last = NoReq
  /\ form # "sso_client" => ssoValid
  /\ LET permObj == OrganiserDetail_get_object(org)
     IN IF Passes(permObj, allowed)
        THEN OrganiserDetail_post(
               [Req("OrganiserDetail", org, 0, NoUser, form, permObj)
                  EXCEPT !.ssoValid = ssoValid],
               org, form, ssoValid)
        ELSE Rejected("OrganiserDetail", permObj)

\* ------------------------------------------------------------ OrganiserDelete
\* OrganiserDelete.get_object, the permission object of the view.
OrganiserDelete_get_object(org) == OrganiserObj(org)

\* OrganiserDelete.post: organiser.shred removes the organiser with its
\* teams and their invites.
OrganiserDelete_post(req, org, raises) ==
  IF raises
  THEN last' = Propagates(req, "shred failed") /\ UNCHANGED dbvars
  ELSE LET gone == {t \in DOMAIN teams : teams[t].org = org}
       IN /\ orgs' = orgs \ {org}
          /\ teams' = Without(teams, gone)
          /\ invites' = WithoutTeams(invites, gone)
          /\ UNCHANGED <<settings, sso, nextTeam, nextInvite>>
          /\ last' = [req EXCEPT !.resp = "RedirectEventList",
                                 !.trace = <<"shred">>]

OrganiserDelete(org, allowed, raises) ==
  /\ org \in orgs
  /\ last = NoReq
  /\ LET permObj == OrganiserDelete_get_object(org)
     IN IF Passes(permObj, allowed)
        THEN OrganiserDelete_post(Req("OrganiserDelete", org, 0, NoUser, "", permObj),
                                  org, raises)
        ELSE Rejected("OrganiserDelete", permObj)

\* ------------------------------------------------------------ request cycle
\* The response is delivered: nothing of the request survives it.
Deliver ==
  /\ last # NoReq
  /\ last' = NoReq
  /\ UNCHANGED dbvars

Init ==
  /\ orgs = Organisers
  /\ settings = [o \in Organisers |-> "a"]
  /\ sso = {}
  /\ teams = InitTeams
  /\ invites = InitInvites
  /\ nextTeam = FirstTeamId
  /\ nextInvite = FirstInviteId
  /\ last = NoReq

Next ==
  \/ \E org \in RequestOrganisers, pk \in 0..MaxTeamId, form \in {"invite", ""},
        allowed \in BOOLEAN, valid \in BOOLEAN :
       TeamDetail(org, pk, form, allowed, valid)
  \/ \E org \in RequestOrganisers, pk \in 1..MaxTeamId, user_pk \in Users \cup {NoUser},
        allowed \in BOOLEAN :
       TeamDelete(org, pk, user_pk, allowed)
  \/ \E org \in RequestOrganisers, pk \in 1..MaxInviteId, allowed \in BOOLEAN,
        raises \in BOOLEAN :
       TeamUninvite(org, pk, allowed, raises)
  \/ \E org \in RequestOrganisers, pk \in 1..MaxInviteId, allowed \in BOOLEAN,
        raises \in BOOLEAN :
       TeamResend(org, pk, allowed, raises)
  \/ \E org \in RequestOrganisers, pk \in 1..MaxTeamId, user_pk \in Users,
        allowed \in BOOLEAN, outcome \in {"ok", "SendMailException", "Exception"} :
       TeamResetPassword(org, pk, user_pk, allowed, outcome)
  \/ \E org \in RequestOrganisers, form \in {"remove_sso_client", "sso_client", ""},
        allowed \in BOOLEAN, ssoValid \in BOOLEAN :
       OrganiserDetail(org, form, allowed, ssoValid)
  \/ \E org \in RequestOrganisers, allowed \in BOOLEAN, raises \in BOOLEAN :
       OrganiserDelete(org, allowed, raises)
  \/ Deliver

Spec == Init /\ [][Next]_vars

\* ------------------------------------------------------------ properties
MessagesOf(r, level) == SelectSeq(r.msgs, LAMBDA m : m.level = level)

InviteOrg(i) == teams[invites[i].team].org

\* C1: a request handled for organiser O acts on the team or invite named by
\* the URL pk only if it belongs to O, and leaves every team, membership and
\* invite of another organiser as it was, without re-sending it.
C1_TenantScoped ==
  [][last'.allowed /\ last'.org # "none" =>
       /\ \A t \in DOMAIN teams : teams[t].org # last'.org =>
            t \in DOMAIN teams' /\ teams'[t] = teams[t]
       /\ \A i \in DOMAIN invites : InviteOrg(i) # last'.org =>
            i \in DOMAIN invites' /\ invites'[i] = invites[i] /\ i \notin last'.mailed
       /\ last'.view \in {"TeamUninvite", "TeamResend"} =>
            last'.pk \in DOMAIN invites /\ InviteOrg(last'.pk) = last'.org
       /\ last'.view \in {"TeamDetail", "TeamDelete", "TeamResetPassword"}
            /\ last'.pk # 0 =>
            last'.pk \in DOMAIN teams /\ teams[last'.pk].org = last'.org]_vars

\* The object the permission of a handled request has to be held on: the
\* team for an edit, a delete, a member removal or an invite to a team, the
\* organiser for everything else.
RequiredPermissionObject(r) ==
  IF r.view \in {"TeamDetail", "TeamDelete"} /\ r.pk # 0
  THEN [kind |-> "team", org |-> r.org, id |-> r.pk]
  ELSE [kind |-> "organiser", org |-> r.org, id |-> 0]

Effect == dbvars' # dbvars \/ last'.mailed # {} \/ last'.reset # NoUser

\* C2: a request whose permission check fails ends Forbidden, changes nothing
\* and sends no mail; whatever is changed, mailed or reset is the work of a
\* request whose user holds the permission on the operation's permission
\* object.
C2_PermissionGate ==
  [][/\ last'.resp = "Forbidden" => ~Effect
     /\ Effect => /\ last'.allowed
                  /\ last'.permObj = RequiredPermissionObject(last')]_vars

C2_Witness ==
  /\ last.view = "TeamDelete"
  /\ last.resp = "Forbidden"
  /\ teams = InitTeams

\* A team save, team delete or member removal in whose atomic block an
\* exception was raised.
RaisedInBlock(r) ==
  /\ r.view \in {"TeamDetail", "TeamDelete"}
  /\ r.allowed
  /\ r.trace # <<>>
  /\ r.trace[1] = "atomic"
  /\ r.exc # ""

\* C3: when the save, the delete, the removal or the check after it raises
\* inside the atomic block, teams, memberships and invites are as before the
\* request, the one message reported is the error carrying the exception
\* text (no success message), and the response is the re-rendered page.
C3_FailedMutationRollsBack ==
  [][RaisedInBlock(last') =>
       /\ teams' = teams
       /\ invites' = invites
       /\ nextTeam' = nextTeam
       /\ last'.msgs = <<Msg("error", last'.exc)>>
       /\ last'.resp = "Render"]_vars

C3_Witness ==
  /\ last.view = "TeamDelete"
  /\ last.user_pk = NoUser
  /\ last.exc = "check failed"
  /\ last.trace = <<"atomic", "mutate", "check", "rollback">>
  /\ last.pk \in DOMAIN teams

\* The teams as the submitted edit makes them.
EditedTeams(r) == [teams EXCEPT ![r.pk].flag = r.data]

\* C4: a valid edit of an existing team whose save and check do not raise is
\* committed even when the check returns warnings, and then at least one
\* warning message is reported.

C5_CheckExactlyOnce ==
  last.view = "TeamDelete" /\ last.allowed =>
    last.trace \in {<<"atomic", "mutate", "check", "commit">>,
                    <<"atomic", "mutate", "check", "rollback">>}

\* C5, amended: when the delete or removal does not raise, the check is
\* invoked exactly once, after the mutation and before the atomic block is
\* left; when the delete or removal raises, the check is not invoked.
C5_CheckOnceAfterMutation ==
  last.view = "TeamDelete" /\ last.allowed =>
    IF last.exc = "delete failed"
    THEN last.trace = <<"atomic", "rollback">>
    ELSE last.trace \in {<<"atomic", "mutate", "check", "commit">>,
                         <<"atomic", "mutate", "check", "rollback">>}

C5_Witness ==
  /\ last.view = "TeamDelete"
  /\ last.user_pk # NoUser
  /\ last.trace = <<"atomic", "mutate", "check", "commit">>

\* C6: a member removal leaves the set of teams, their organisers and flags,
\* the members of the other teams and the invites as they were; a team
\* disappears only in a team delete without user_pk or an organiser delete.
C6_MemberRemovalKeepsTeams ==
  [][/\ last'.view = "TeamDelete" /\ last'.user_pk # NoUser =>
          /\ DOMAIN teams' = DOMAIN teams
          /\ \A t \in DOMAIN teams :
               /\ teams'[t].org = teams[t].org
               /\ teams'[t].flag = teams[t].flag
               /\ t # last'.pk => teams'[t].members = teams[t].members
          /\ invites' = invites
     /\ ~(DOMAIN teams \subseteq DOMAIN teams') =>
          \/ last'.view = "TeamDelete" /\ last'.user_pk = NoUser
          \/ last'.view = "OrganiserDelete"]_vars

\* The last member of a team has just been removed, and the team is there.
C6_Witness ==
  /\ last.view = "TeamDelete"
  /\ last.user_pk # NoUser
  /\ last.resp = "RedirectBase"
  /\ last.pk \in DOMAIN teams
  /\ teams[last.pk].members = {}

InvalidFields(r) == {f \in InviteFields : r.errors[f] > 0}

\* C7: an invite POST whose form is invalid writes nothing, sends nothing,
\* never reaches a save, reports one error message per invalid field and
\* nothing else, and redirects to the same URL.

C7_InvalidInviteWritesNothing ==
  [][last'.view = "TeamDetail" /\ last'.form = "invite" /\ InvalidFields(last') # {} =>
       /\ UNCHANGED dbvars
       /\ last'.mailed = {}
       /\ last'.trace = <<>>
       /\ Len(last'.msgs) = Cardinality(InvalidFields(last'))
       /\ \A f \in InvalidFields(last') :
            \E i \in 1..Len(last'.msgs) : last'.msgs[i] = Msg("error", f)
       /\ last'.resp = "RedirectPath"]_vars

C7_Witness ==
  /\ last.view = "TeamDetail"
  /\ last.form = "invite"
  /\ last.errors["email"] = 2
  /\ last.errors["bulk_email"] = 1
  /\ Len(last.msgs) = 2

InTrace(r, e) == \E i \in 1..Len(r.trace) : r.trace[i] = e

\* C8: in an OrganiserDetail POST the discriminator alone selects the branch:
\* sso_client never saves the organiser settings, remove_sso_client saves
\* neither settings nor an SSO client, and a settings POST neither saves nor
\* deletes an SSO client.
C8_BranchByDiscriminator ==
  last.view = "OrganiserDetail" /\ last.allowed =>
    /\ last.form = "sso_client" =>
         ~InTrace(last, "settings_save") /\ ~InTrace(last, "sso_delete")
    /\ last.form = "remove_sso_client" =>
         ~InTrace(last, "settings_save") /\ ~InTrace(last, "sso_save")
    /\ last.form = "" =>
         ~InTrace(last, "sso_save") /\ ~InTrace(last, "sso_delete")

\* C9: no exception leaves the handler of a team save, team delete, member
\* removal, invite retract, invite resend, password reset, SSO client save
\* or removal, or organiser settings save.
C9_NoExceptionPropagates ==
  /\ last.view \in {"TeamDelete", "TeamResend", "TeamUninvite",
                    "TeamResetPassword", "OrganiserDetail"} =>
       last.resp # "Exception"
  /\ last.view = "TeamDetail" /\ last.form # "invite" => last.resp # "Exception"

\* C10: the invite form is never saved without a team of the request's
\* organiser, and every invite references an existing team.
C10_InviteSaveHasTeam ==
  /\ InTrace(last, "invite_form.save") =>
       last.saveTeam.kind = "team" /\ last.saveTeam.org = last.org
  /\ \A i \in DOMAIN invites : invites[i].team \in DOMAIN teams

====
